---------------------------- MODULE Spec2Model ----------------------------
(* A model of the browser helpers of js/framework.js:                      *)
(*   - easeOutGradient (the gradient fade-out helper),                     *)
(*   - initDatalist (the searchable dropdown widget),                      *)
(*   - initDarkMode (the dark-mode control),                               *)
(*   - initNavbarScroll (the navbar scroll helper), and                    *)
(*   - the unsaved-changes tracker.                                        *)
(* Each helper is a closure over its own state reacting to DOM events, so  *)
(* each gets its own specification over its own variables.                 *)
EXTENDS Integers, Sequences, FiniteSets, TLC

(***************************************************************************)
(* Bounds of the model.                                                    *)
(***************************************************************************)
\* easeOutGradient calls made on the element
MaxCalls == 3
\* transitionend events delivered to the element
MaxEvents == 3
\* navigation attempts made while a tracker exists
MaxNavigations == 4

(***************************************************************************)
(* easeOutGradient                                                         *)
(***************************************************************************)
VARIABLES
    classList,      \* the element's classes, among 'gradient', 'gradient-out'
    styleTransition,\* element.style.transition (the inline style)
    listeners,      \* the element's transitionend listeners, in registration
                    \* order; each is the handleTransitionEnd closure of a call
    calls,          \* one record per easeOutGradient call (its promise)
    nEvents,        \* transitionend events delivered so far
    lastG           \* the last gradient step and the state it started from

gradientVars == <<classList, styleTransition, listeners, calls, nEvents, lastG>>

\* The propertyName the handler acts on.
GradientProperty == "--gradient-opacity"

\* propertyName of the transitionend events the browser may deliver.
PropertyNames == {GradientProperty, "opacity", "border-color"}

\* Inline transition styles the element may carry before the helper runs.
InitialStyles == {"", "opacity 1s"}

\* The calls whose promise is still unresolved.
PendingCalls(cs) == {c \in 1..Len(cs) : cs[c].resolveCalls = 0}

RemoveListener(ls, c) == SelectSeq(ls, LAMBDA x : x # c)

IsRegistered(ls, c) == \E i \in 1..Len(ls) : ls[i] = c

\* resolve(): the promise settles on the first call only, later ones are
\* counted (resolveCalls) but change nothing else.
Resolve(rec, how) ==
    [rec EXCEPT !.resolveCalls = @ + 1,
                !.resolvedBy = IF rec.resolveCalls = 0 THEN how ELSE @,
                !.resolvedAtMatch = IF rec.resolveCalls = 0 THEN rec.matchSince ELSE @]

\* handleTransitionEnd without the removeEventListener line.
HandleTransitionEndKeepsListener(st, c, p) ==
    LET ran == [st.calls EXCEPT ![c].handlerRuns = @ + 1,
                                ![c].lateRuns = IF st.calls[c].resolveCalls > 0
                                                THEN @ + 1 ELSE @]
    IN IF p = GradientProperty
       THEN [classList |-> st.classList \ {"gradient", "gradient-out"},
             styleTransition |-> "",
             listeners |-> st.listeners,
             calls |-> [ran EXCEPT ![c] = Resolve(ran[c], "event")]]
       ELSE [st EXCEPT !.calls = ran]

\* handleTransitionEnd acting on every propertyName.
HandleTransitionEndAnyProperty(st, c, p) ==
    LET ran == [st.calls EXCEPT ![c].handlerRuns = @ + 1,
                                ![c].lateRuns = IF st.calls[c].resolveCalls > 0
                                                THEN @ + 1 ELSE @]
    IN [classList |-> st.classList \ {"gradient", "gradient-out"},
        styleTransition |-> "",
        listeners |-> RemoveListener(st.listeners, c),
        calls |-> [ran EXCEPT ![c] = Resolve(ran[c], "event")]]

\* handleTransitionEnd switching the transitions off and on around the
\* propertyName test instead of inside it.
HandleTransitionEndStyleFirst(st, c, p) ==
    LET ran == [st.calls EXCEPT ![c].handlerRuns = @ + 1,
                                ![c].lateRuns = IF st.calls[c].resolveCalls > 0
                                                THEN @ + 1 ELSE @]
    IN IF p = GradientProperty
       THEN [classList |-> st.classList \ {"gradient", "gradient-out"},
             styleTransition |-> "",
             listeners |-> RemoveListener(st.listeners, c),
             calls |-> [ran EXCEPT ![c] = Resolve(ran[c], "event")]]
       ELSE [st EXCEPT !.calls = ran, !.styleTransition = ""]

\* handleTransitionEnd(e) of call c, e.propertyName = p, on the state st.
HandleTransitionEnd(st, c, p) ==
    LET ran == [st.calls EXCEPT ![c].handlerRuns = @ + 1,
                                ![c].lateRuns = IF st.calls[c].resolveCalls > 0
                                                THEN @ + 1 ELSE @]
    IN IF p = GradientProperty
       THEN \* style.transition = 'none'; classList.remove(both); reflow;
            \* style.transition = ''; removeEventListener; resolve()
            [classList |-> st.classList \ {"gradient", "gradient-out"},
             styleTransition |-> "",
             listeners |-> RemoveListener(st.listeners, c),
             calls |-> [ran EXCEPT ![c] = Resolve(ran[c], "event")]]
       ELSE [st EXCEPT !.calls = ran]

\* The browser's dispatch of one event: the listeners registered when the
\* dispatch starts are invoked in registration order, one removed meanwhile
\* is skipped.
RECURSIVE Dispatch(_, _, _)
Dispatch(st, todo, p) ==
    IF todo = <<>> THEN st
    ELSE IF IsRegistered(st.listeners, Head(todo))
         THEN Dispatch(HandleTransitionEnd(st, Head(todo), p), Tail(todo), p)
         ELSE Dispatch(st, Tail(todo), p)

NewCall(had) ==
    [had |-> had, resolveCalls |-> 0, resolvedBy |-> "none", resolvedAtMatch |-> 0,
     handlerRuns |-> 0, lateRuns |-> 0, matchSince |-> 0]

\* The executor without the early return: resolve() and then go on.
EaseOutGradientNoReturn ==
    /\ Len(calls) < MaxCalls
    /\ LET c == Len(calls) + 1
           had == "gradient" \in classList
       IN /\ classList' = classList \cup {"gradient-out"}
          /\ listeners' = Append(listeners, c)
          /\ calls' = Append(calls, IF had THEN NewCall(had)
                                    ELSE Resolve(NewCall(had), "call"))
          /\ lastG' = [op |-> "call", id |-> c, prop |-> "",
                       classList |-> classList, listeners |-> listeners,
                       styleTransition |-> styleTransition,
                       pending |-> PendingCalls(calls)]
    /\ UNCHANGED <<styleTransition, nEvents>>

\* The executor registering a listener only while the element has none.
EaseOutGradientSingleListener ==
    /\ Len(calls) < MaxCalls
    /\ LET c == Len(calls) + 1
           had == "gradient" \in classList
       IN /\ IF ~had
             THEN /\ calls' = Append(calls, Resolve(NewCall(had), "call"))
                  /\ UNCHANGED <<classList, listeners>>
             ELSE /\ classList' = classList \cup {"gradient-out"}
                  /\ listeners' = IF listeners = <<>> THEN Append(listeners, c)
                                  ELSE listeners
                  /\ calls' = Append(calls, NewCall(had))
          /\ lastG' = [op |-> "call", id |-> c, prop |-> "",
                       classList |-> classList, listeners |-> listeners,
                       styleTransition |-> styleTransition,
                       pending |-> PendingCalls(calls)]
    /\ UNCHANGED <<styleTransition, nEvents>>

\* easeOutGradient(element): the promise executor runs during the call.
EaseOutGradient ==
    /\ Len(calls) < MaxCalls
    /\ LET c == Len(calls) + 1
           had == "gradient" \in classList
       IN /\ IF ~had
             THEN /\ calls' = Append(calls, Resolve(NewCall(had), "call"))
                  /\ UNCHANGED <<classList, listeners>>
             ELSE /\ classList' = classList \cup {"gradient-out"}
                  /\ listeners' = Append(listeners, c)
                  /\ calls' = Append(calls, NewCall(had))
          /\ lastG' = [op |-> "call", id |-> c, prop |-> "",
                       classList |-> classList, listeners |-> listeners,
                       styleTransition |-> styleTransition,
                       pending |-> PendingCalls(calls)]
    /\ UNCHANGED <<styleTransition, nEvents>>

\* A transitionend event with propertyName p is delivered to the element.
TransitionEnd(p) ==
    /\ nEvents < MaxEvents
    /\ nEvents' = nEvents + 1
    /\ LET seen == [i \in 1..Len(calls) |->
                      IF p = GradientProperty
                      THEN [calls[i] EXCEPT !.matchSince = @ + 1]
                      ELSE calls[i]]
           st == Dispatch([classList |-> classList,
                           styleTransition |-> styleTransition,
                           listeners |-> listeners,
                           calls |-> seen], listeners, p)
       IN /\ classList' = st.classList
          /\ styleTransition' = st.styleTransition
          /\ listeners' = st.listeners
          /\ calls' = st.calls
    /\ lastG' = [op |-> "event", id |-> 0, prop |-> p,
                 classList |-> classList, listeners |-> listeners,
                 styleTransition |-> styleTransition,
                 pending |-> PendingCalls(calls)]

(***************************************************************************)
(* initDatalist                                                            *)
(* The file breaks off inside updateHighlight: the closure's state, the    *)
(* rendering of the option buttons and their click and mouseenter          *)
(* listeners are modelled from the code, the input and key handlers,       *)
(* selectOption and the returned methods from the widget's contract.       *)
(***************************************************************************)
VARIABLES
    options,          \* config.options, the full option list
    onChange,         \* config.onChange: a callback, or null by default
    selectedValue,
    selectedLabel,
    highlightedIndex, \* 0-based as in the code, -1 = none
    filteredOptions,
    isOpen,
    query,            \* input.value, the query text
    rendered,         \* the option buttons in the dropdown, with what the
                      \* listeners of each close over (option, index)
    onChangeCalls,    \* the payloads onChange got during the last handler
    lastD             \* the last datalist step and the selection before it

datalistVars == <<options, onChange, selectedValue, selectedLabel, highlightedIndex,
                  filteredOptions, isOpen, query, rendered, onChangeCalls, lastD>>

(***************************************************************************)
(* The state of the other helpers.                                         *)
(***************************************************************************)
VARIABLES
    \* initDarkMode
    darkReady,      \* initDarkMode has returned, its listeners are registered
    rootDark,       \* document.documentElement has the class 'dark'
    hasToggle,      \* a checkbox was passed as toggle
    checked,        \* toggle.checked (FALSE when there is no checkbox)
    systemDark,     \* darkModeQuery.matches
    lastK,          \* the last dark-mode step and the state before it
    \* initNavbarScroll
    threshold,
    mobileBreakpoint,
    lastScrollY,
    topRowHidden,
    scrollY,        \* window.scrollY
    innerWidth,     \* window.innerWidth
    rowStyle,       \* the inline style of the top row and the navbar
    lastN,          \* the last navbar step and the state before it
    \* the unsaved-changes tracker
    dirty,
    listening,      \* the tracker's beforeunload listener is registered
    navigations,    \* navigation attempts made so far
    confirmations,  \* those that took the browser confirmation path
    lastT           \* the last tracker step

darkVars == <<darkReady, rootDark, hasToggle, checked, systemDark, lastK>>

navVars == <<threshold, mobileBreakpoint, lastScrollY, topRowHidden, scrollY,
             innerWidth, rowStyle, lastN>>

trackerVars == <<dirty, listening, navigations, confirmations, lastT>>

vars == <<gradientVars, datalistVars, darkVars, navVars, trackerVars>>

\* initDarkMode is not called.
DarkIdle ==
    /\ darkReady = FALSE
    /\ rootDark = FALSE
    /\ hasToggle = FALSE
    /\ checked = FALSE
    /\ systemDark = FALSE
    /\ lastK = [op |-> "none", arg |-> FALSE, rootDark |-> FALSE, checked |-> FALSE,
                prevOp |-> "none", prevDark |-> FALSE]

\* initNavbarScroll is not called.
NavIdle ==
    /\ threshold = 0
    /\ mobileBreakpoint = 0
    /\ lastScrollY = 0
    /\ topRowHidden = FALSE
    /\ scrollY = 0
    /\ innerWidth = 0
    /\ rowStyle = "none"
    /\ lastN = [op |-> "none", topRowHidden |-> FALSE, lastScrollY |-> 0]

\* No tracker is created.
TrackerIdle ==
    /\ dirty = FALSE
    /\ listening = FALSE
    /\ navigations = 0
    /\ confirmations = 0
    /\ lastT = [op |-> "none", confirmed |-> FALSE, mark |-> "none",
                destroyed |-> FALSE]

\* easeOutGradient is not called.
GradientIdle ==
    /\ classList = {}
    /\ styleTransition = ""
    /\ listeners = <<>>
    /\ calls = <<>>
    /\ nEvents = 0
    /\ lastG = [op |-> "init", id |-> 0, prop |-> "",
                classList |-> {}, listeners |-> <<>>, styleTransition |-> "",
                pending |-> {}]

\* Longest query text typed into the input.
MaxQueryLen == 2

\* null, as a value no option carries.
Null == "<null>"

\* Text (a label, the query) is a sequence of characters.
EmptyText == <<>>
QueryChars == {"a", "n", "A"}

LowerOf == [A |-> "a", B |-> "b", N |-> "n", P |-> "p"]

\* String.prototype.toLowerCase, character by character.
ToLowerCase(t) ==
    [i \in 1..Len(t) |-> IF t[i] \in DOMAIN LowerOf THEN LowerOf[t[i]] ELSE t[i]]

\* String.prototype.includes: s has q as a contiguous part.
Includes(s, q) ==
    \E i \in 0..(Len(s) - Len(q)) : SubSeq(s, i + 1, i + Len(q)) = q

Texts(n) == UNION {[1..k -> QueryChars] : k \in 0..n}

Apple == [value |-> "apple", label |-> <<"A", "p", "p", "l", "e">>]
Banana == [value |-> "banana", label |-> <<"B", "a", "n", "a", "n", "a">>]
Pan == [value |-> "pan", label |-> <<"P", "A", "N">>]
Nap == [value |-> "nap", label |-> <<"n", "a", "p">>]

\* The option lists a widget is constructed with.
OptionLists == {<<>>, <<Apple, Banana>>, <<Pan, Apple, Nap>>}

\* Keys handed to setValue: the values of the options and one of no option.
Keys == {"apple", "banana", "pan", "nap", "kiwi"}

NoOption == [value |-> Null, label |-> EmptyText]

\* initDatalist is not called.
DatalistIdle ==
    /\ options = <<>>
    /\ onChange = Null
    /\ selectedValue = Null
    /\ selectedLabel = EmptyText
    /\ highlightedIndex = -1
    /\ filteredOptions = <<>>
    /\ isOpen = FALSE
    /\ query = EmptyText
    /\ rendered = <<>>
    /\ onChangeCalls = <<>>
    /\ lastD = [op |-> "init", key |-> "", opt |-> NoOption, options |-> <<>>,
                selectedValue |-> Null, selectedLabel |-> EmptyText,
                highlightedIndex |-> -1, isOpen |-> FALSE, query |-> EmptyText]

Step(op, key, opt) ==
    [op |-> op, key |-> key, opt |-> opt, options |-> options,
     selectedValue |-> selectedValue, selectedLabel |-> selectedLabel,
     highlightedIndex |-> highlightedIndex, isOpen |-> isOpen, query |-> query]

\* renderOptions(): one button per filtered option, none (the empty
\* message) when there is no option; each button's listeners close over
\* its option and its index.
RenderOptions(fo) == [i \in 1..Len(fo) |-> [option |-> fo[i], index |-> i - 1]]

\* let selectedValue = '' (as selectedLabel) instead of null.
InitialSelectedValueEmpty == ""

\* let selectedValue = null
InitialSelectedValue == Null

DatalistInit ==
    \* no easeOutGradient call is made
    /\ classList = {}
    /\ styleTransition = ""
    /\ listeners = <<>>
    /\ calls = <<>>
    /\ nEvents = 0
    /\ lastG = [op |-> "init", id |-> 0, prop |-> "",
                classList |-> {}, listeners |-> <<>>, styleTransition |-> "",
                pending |-> {}]
    /\ DarkIdle /\ NavIdle /\ TrackerIdle
    /\ options \in OptionLists
    /\ onChange \in {Null, "callback"}
    /\ selectedValue = InitialSelectedValue
    /\ selectedLabel = EmptyText
    /\ highlightedIndex = -1
    /\ filteredOptions = options
    /\ isOpen = FALSE
    /\ query = EmptyText
    /\ rendered = RenderOptions(options)
    /\ onChangeCalls = <<>>
    /\ lastD = [op |-> "init", key |-> "", opt |-> NoOption, options |-> options,
                selectedValue |-> InitialSelectedValue, selectedLabel |-> EmptyText,
                highlightedIndex |-> -1, isOpen |-> FALSE, query |-> EmptyText]

\* options.filter(o => o.label.toLowerCase().includes(q.toLowerCase()))
\* comparing the texts as typed: the case-sensitive filter.
FilterCaseSensitive(opts, q) ==
    SelectSeq(opts, LAMBDA o : Includes(o.label, q))

\* The case-insensitive substring filter of the full list by the query.
Filter(opts, q) ==
    SelectSeq(opts, LAMBDA o : Includes(ToLowerCase(o.label), ToLowerCase(q)))

\* getValue()
GetValue == selectedValue

\* selectOption(option): set the selection, close the panel, tell onChange.
SelectOption(o) ==
    /\ selectedValue' = o.value
    /\ selectedLabel' = o.label
    /\ isOpen' = FALSE
    /\ rendered' = RenderOptions(filteredOptions)
    /\ onChangeCalls' = IF onChange = Null THEN <<>>
                        ELSE <<[value |-> o.value, label |-> o.label]>>
    /\ UNCHANGED <<options, onChange, highlightedIndex, filteredOptions, query>>

\* The input event: the user edited the text to q.
InputEvent(q) ==
    /\ query' = q
    /\ filteredOptions' = Filter(options, q)
    /\ highlightedIndex' = -1
    /\ rendered' = RenderOptions(filteredOptions')
    /\ onChangeCalls' = <<>>
    /\ lastD' = Step("input", "", NoOption)
    /\ UNCHANGED <<options, onChange, selectedValue, selectedLabel, isOpen>>

\* ArrowDown: one further, and at the last option either back to the first
\* (wraparound) or staying (clamping).
KeyArrowDown ==
    /\ LET n == Len(filteredOptions)
       IN IF n = 0 THEN UNCHANGED highlightedIndex
          ELSE IF highlightedIndex < n - 1
               THEN highlightedIndex' = highlightedIndex + 1
               ELSE highlightedIndex' \in {0, n - 1}
    /\ onChangeCalls' = <<>>
    /\ lastD' = Step("down", "", NoOption)
    /\ UNCHANGED <<options, onChange, selectedValue, selectedLabel, filteredOptions,
                   isOpen, query, rendered>>

\* ArrowUp: one back, and at the first option (or none) either to the last
\* (wraparound) or to the first (clamping).
KeyArrowUp ==
    /\ LET n == Len(filteredOptions)
       IN IF n = 0 THEN UNCHANGED highlightedIndex
          ELSE IF highlightedIndex > 0
               THEN highlightedIndex' = highlightedIndex - 1
               ELSE highlightedIndex' \in {0, n - 1}
    /\ onChangeCalls' = <<>>
    /\ lastD' = Step("up", "", NoOption)
    /\ UNCHANGED <<options, onChange, selectedValue, selectedLabel, filteredOptions,
                   isOpen, query, rendered>>

\* Enter commits the highlighted option, and does nothing without one.
KeyEnter ==
    IF highlightedIndex >= 0 /\ highlightedIndex < Len(filteredOptions)
    THEN /\ SelectOption(filteredOptions[highlightedIndex + 1])
         /\ lastD' = Step("enter", "", filteredOptions[highlightedIndex + 1])
    ELSE /\ onChangeCalls' = <<>>
         /\ lastD' = Step("enter", "", NoOption)
         /\ UNCHANGED <<options, onChange, selectedValue, selectedLabel, highlightedIndex,
                        filteredOptions, isOpen, query, rendered>>

\* Escape closing the panel and dropping the selection.
KeyEscapeClears ==
    /\ isOpen' = FALSE
    /\ selectedValue' = Null
    /\ selectedLabel' = EmptyText
    /\ onChangeCalls' = <<>>
    /\ lastD' = Step("escape", "", NoOption)
    /\ UNCHANGED <<options, onChange, highlightedIndex, filteredOptions, query, rendered>>

\* Escape closes the panel.
KeyEscape ==
    /\ isOpen' = FALSE
    /\ onChangeCalls' = <<>>
    /\ lastD' = Step("escape", "", NoOption)
    /\ UNCHANGED <<options, onChange, selectedValue, selectedLabel, highlightedIndex,
                   filteredOptions, query, rendered>>

\* mouseenter storing the button's position counted from 1.
MouseEnterOptionOneBased(b) ==
    /\ b \in 1..Len(rendered)
    /\ highlightedIndex' = rendered[b].index + 1
    /\ onChangeCalls' = <<>>
    /\ lastD' = Step("mouseenter", "", rendered[b].option)
    /\ UNCHANGED <<options, onChange, selectedValue, selectedLabel, filteredOptions,
                   isOpen, query, rendered>>

\* mouseenter on the b-th option button: highlightedIndex = index;
\* updateHighlight().
MouseEnterOption(b) ==
    /\ b \in 1..Len(rendered)
    /\ highlightedIndex' = rendered[b].index
    /\ onChangeCalls' = <<>>
    /\ lastD' = Step("mouseenter", "", rendered[b].option)
    /\ UNCHANGED <<options, onChange, selectedValue, selectedLabel, filteredOptions,
                   isOpen, query, rendered>>

\* click selecting the first button's option whichever button was clicked.
ClickOptionFirst(b) ==
    /\ b \in 1..Len(rendered)
    /\ SelectOption(rendered[1].option)
    /\ lastD' = Step("click", "", rendered[b].option)

\* click on the b-th option button: selectOption(option).
ClickOption(b) ==
    /\ b \in 1..Len(rendered)
    /\ SelectOption(rendered[b].option)
    /\ lastD' = Step("click", "", rendered[b].option)

HasValue(k) == \E i \in 1..Len(options) : options[i].value = k

FindValue(k) == options[CHOOSE i \in 1..Len(options) : options[i].value = k]

\* setValue(key) leaving the selection alone when no option has the key.
SetValueKeepsOnMiss(k) ==
    /\ IF HasValue(k)
       THEN /\ selectedValue' = FindValue(k).value
            /\ selectedLabel' = FindValue(k).label
       ELSE UNCHANGED <<selectedValue, selectedLabel>>
    /\ rendered' = RenderOptions(filteredOptions)
    /\ onChangeCalls' = <<>>
    /\ lastD' = Step("setValue", k, NoOption)
    /\ UNCHANGED <<options, onChange, highlightedIndex, filteredOptions, isOpen, query>>

\* setValue(key): select the option with that value, or clear when there
\* is none.
SetValue(k) ==
    /\ IF HasValue(k)
       THEN /\ selectedValue' = FindValue(k).value
            /\ selectedLabel' = FindValue(k).label
       ELSE /\ selectedValue' = Null
            /\ selectedLabel' = EmptyText
    /\ rendered' = RenderOptions(filteredOptions)
    /\ onChangeCalls' = <<>>
    /\ lastD' = Step("setValue", k, NoOption)
    /\ UNCHANGED <<options, onChange, highlightedIndex, filteredOptions, isOpen, query>>

\* clear() resetting the selection only.
ClearKeepsQuery ==
    /\ selectedValue' = Null
    /\ selectedLabel' = EmptyText
    /\ rendered' = RenderOptions(filteredOptions)
    /\ onChangeCalls' = <<>>
    /\ lastD' = Step("clear", "", NoOption)
    /\ UNCHANGED <<options, onChange, isOpen, query, filteredOptions, highlightedIndex>>

\* clear(): reset the selection and the query.
Clear ==
    /\ selectedValue' = Null
    /\ selectedLabel' = EmptyText
    /\ query' = EmptyText
    /\ filteredOptions' = options
    /\ highlightedIndex' = -1
    /\ rendered' = RenderOptions(filteredOptions')
    /\ onChangeCalls' = <<>>
    /\ lastD' = Step("clear", "", NoOption)
    /\ UNCHANGED <<options, onChange, isOpen>>

\* open(): show the option panel.
Open ==
    /\ isOpen' = TRUE
    /\ rendered' = RenderOptions(filteredOptions)
    /\ onChangeCalls' = <<>>
    /\ lastD' = Step("open", "", NoOption)
    /\ UNCHANGED <<options, onChange, selectedValue, selectedLabel, highlightedIndex,
                   filteredOptions, query>>

\* close(): hide the option panel.
Close ==
    /\ isOpen' = FALSE
    /\ onChangeCalls' = <<>>
    /\ lastD' = Step("close", "", NoOption)
    /\ UNCHANGED <<options, onChange, selectedValue, selectedLabel, highlightedIndex,
                   filteredOptions, query, rendered>>

DatalistNext ==
    \/ \E q \in Texts(MaxQueryLen) : InputEvent(q)
           /\ UNCHANGED <<gradientVars, darkVars, navVars, trackerVars>>
    \/ KeyArrowDown
           /\ UNCHANGED <<gradientVars, darkVars, navVars, trackerVars>>
    \/ KeyArrowUp
           /\ UNCHANGED <<gradientVars, darkVars, navVars, trackerVars>>
    \/ KeyEnter
           /\ UNCHANGED <<gradientVars, darkVars, navVars, trackerVars>>
    \/ KeyEscape
           /\ UNCHANGED <<gradientVars, darkVars, navVars, trackerVars>>
    \/ \E b \in 1..Len(rendered) : MouseEnterOption(b)
           /\ UNCHANGED <<gradientVars, darkVars, navVars, trackerVars>>
    \/ \E b \in 1..Len(rendered) : ClickOption(b)
           /\ UNCHANGED <<gradientVars, darkVars, navVars, trackerVars>>
    \/ \E k \in Keys : SetValue(k)
           /\ UNCHANGED <<gradientVars, darkVars, navVars, trackerVars>>
    \/ Clear
           /\ UNCHANGED <<gradientVars, darkVars, navVars, trackerVars>>
    \/ Open
           /\ UNCHANGED <<gradientVars, darkVars, navVars, trackerVars>>
    \/ Close
           /\ UNCHANGED <<gradientVars, darkVars, navVars, trackerVars>>

GradientInit ==
    /\ classList \in SUBSET {"gradient", "gradient-out"}
    /\ styleTransition \in InitialStyles
    /\ listeners = <<>>
    /\ calls = <<>>
    /\ nEvents = 0
    /\ lastG = [op |-> "init", id |-> 0, prop |-> "",
                classList |-> classList, listeners |-> <<>>,
                styleTransition |-> styleTransition, pending |-> {}]
    \* no datalist is constructed
    /\ options = <<>>
    /\ onChange = Null
    /\ selectedValue = Null
    /\ selectedLabel = EmptyText
    /\ highlightedIndex = -1
    /\ filteredOptions = <<>>
    /\ isOpen = FALSE
    /\ query = EmptyText
    /\ rendered = <<>>
    /\ onChangeCalls = <<>>
    /\ lastD = [op |-> "init", key |-> "", opt |-> NoOption, options |-> <<>>,
                selectedValue |-> Null, selectedLabel |-> EmptyText,
                highlightedIndex |-> -1, isOpen |-> FALSE, query |-> EmptyText]
    /\ DarkIdle /\ NavIdle /\ TrackerIdle

GradientNext ==
    \/ EaseOutGradient /\ UNCHANGED <<datalistVars, darkVars, navVars, trackerVars>>
    \/ \E p \in PropertyNames : TransitionEnd(p) /\ UNCHANGED <<datalistVars, darkVars, navVars, trackerVars>>

(***************************************************************************)
(* initDarkMode                                                            *)
(***************************************************************************)
\* classList.toggle(token, force) with a boolean force: the token is
\* present afterwards exactly when force is true.
ClassListToggle(present, force) == force

KStep(op, arg) ==
    [op |-> op, arg |-> arg, rootDark |-> rootDark, checked |-> checked,
     prevOp |-> lastK.op, prevDark |-> lastK.rootDark]

\* set(isDark) leaving the checkbox alone.
SetDarkRootOnly(isDark) ==
    /\ rootDark' = ClassListToggle(rootDark, isDark)
    /\ UNCHANGED checked

\* set(isDark)
SetDark(isDark) ==
    /\ rootDark' = ClassListToggle(rootDark, isDark)
    /\ checked' = IF hasToggle THEN isDark ELSE checked

\* isDark()
IsDark == rootDark

\* initDarkMode registering its listeners without set(darkModeQuery.matches).
InitDarkModeNoSet ==
    /\ ~darkReady
    /\ darkReady' = TRUE
    /\ lastK' = KStep("init", systemDark)
    /\ UNCHANGED <<rootDark, checked, hasToggle, systemDark>>

\* initDarkMode(toggle): register the listeners, set(darkModeQuery.matches).
InitDarkMode ==
    /\ ~darkReady
    /\ darkReady' = TRUE
    /\ SetDark(systemDark)
    /\ lastK' = KStep("init", systemDark)
    /\ UNCHANGED <<hasToggle, systemDark>>

\* The returned set(b), b a boolean.
DarkSet(b) ==
    /\ darkReady
    /\ SetDark(b)
    /\ lastK' = KStep("set", b)
    /\ UNCHANGED <<darkReady, hasToggle, systemDark>>

\* toggle() negating the system preference instead of the current state.
DarkToggleFromSystem ==
    /\ darkReady
    /\ SetDark(~systemDark)
    /\ lastK' = KStep("toggle", FALSE)
    /\ UNCHANGED <<darkReady, hasToggle, systemDark>>

\* The returned toggle(): set(!classList.contains('dark')).
DarkToggle ==
    /\ darkReady
    /\ SetDark(~rootDark)
    /\ lastK' = KStep("toggle", FALSE)
    /\ UNCHANGED <<darkReady, hasToggle, systemDark>>

\* The user sets the checkbox to c; its 'change' listener: set(this.checked).
CheckboxChange(c) ==
    /\ darkReady
    /\ hasToggle
    /\ SetDark(c)
    /\ lastK' = KStep("checkbox", c)
    /\ UNCHANGED <<darkReady, hasToggle, systemDark>>

\* The system preference changes with no listener on the media query.
SystemPreferenceChangeUnheard(m) ==
    /\ darkReady
    /\ m # systemDark
    /\ systemDark' = m
    /\ lastK' = KStep("system", m)
    /\ UNCHANGED <<rootDark, checked, darkReady, hasToggle>>

\* The system preference changes to m; the media query's 'change'
\* listener: set(e.matches).
SystemPreferenceChange(m) ==
    /\ darkReady
    /\ m # systemDark
    /\ systemDark' = m
    /\ SetDark(m)
    /\ lastK' = KStep("system", m)
    /\ UNCHANGED <<darkReady, hasToggle>>

\* Before initDarkMode: the page may carry 'dark' already, the checkbox,
\* when there is one, may be checked, the system prefers either scheme.
DarkModeInit ==
    /\ darkReady = FALSE
    /\ rootDark \in BOOLEAN
    /\ hasToggle \in BOOLEAN
    /\ checked \in (IF hasToggle THEN BOOLEAN ELSE {FALSE})
    /\ systemDark \in BOOLEAN
    /\ lastK = [op |-> "none", arg |-> FALSE, rootDark |-> rootDark,
                checked |-> checked, prevOp |-> "none", prevDark |-> rootDark]
    /\ GradientIdle /\ DatalistIdle /\ NavIdle /\ TrackerIdle

DarkModeNext ==
    \/ InitDarkMode
           /\ UNCHANGED <<gradientVars, datalistVars, navVars, trackerVars>>
    \/ \E b \in BOOLEAN : DarkSet(b)
           /\ UNCHANGED <<gradientVars, datalistVars, navVars, trackerVars>>
    \/ DarkToggle
           /\ UNCHANGED <<gradientVars, datalistVars, navVars, trackerVars>>
    \/ \E c \in BOOLEAN : CheckboxChange(c)
           /\ UNCHANGED <<gradientVars, datalistVars, navVars, trackerVars>>
    \/ \E m \in BOOLEAN : SystemPreferenceChange(m)
           /\ UNCHANGED <<gradientVars, datalistVars, navVars, trackerVars>>

(***************************************************************************)
(* initNavbarScroll                                                        *)
(***************************************************************************)
DefaultThreshold == 10
DefaultMobileBreakpoint == 640
\* The top row is hidden only below this scroll position.
TopOffset == 50

\* options.threshold and options.mobileBreakpoint as passed: 0 stands for
\* an absent (or zero) option, which || replaces by the default.
ThresholdOptions == {0, 20, 60}
BreakpointOptions == {0, 768}

\* window.scrollY and window.innerWidth as the browser may report them.
ScrollPositions == {0, 5, 10, 48, 51, 61, 80}
Widths == {320, 640, 641, 1024}

\* v || d
OrDefault(v, d) == IF v = 0 THEN d ELSE v

Abs(x) == IF x < 0 THEN -x ELSE x

\* isMobile()
IsMobile(w) == w <= mobileBreakpoint

\* hideTopRow() on the closure state st
HideTopRow(st) ==
    IF st.topRowHidden THEN st
    ELSE [st EXCEPT !.topRowHidden = TRUE, !.rowStyle = "collapsed"]

\* showTopRow() on the closure state st
ShowTopRow(st) ==
    IF ~st.topRowHidden THEN st
    ELSE [st EXCEPT !.topRowHidden = FALSE, !.rowStyle = "expanded"]

NavState ==
    [topRowHidden |-> topRowHidden, rowStyle |-> rowStyle, lastScrollY |-> lastScrollY]

\* onScroll hiding on any downward scroll, the position aside.
OnScrollNoTopCheck(st, y, w) ==
    IF ~IsMobile(w)
    THEN IF st.topRowHidden THEN ShowTopRow(st) ELSE st
    ELSE LET scrollDelta == y - st.lastScrollY
         IN IF Abs(scrollDelta) < threshold THEN st
            ELSE [(IF scrollDelta > 0 THEN HideTopRow(st)
                   ELSE IF scrollDelta < 0 THEN ShowTopRow(st)
                   ELSE st) EXCEPT !.lastScrollY = y]

\* onScroll returning on a wide screen without showing the top row.
OnScrollDesktopReturns(st, y, w) ==
    IF ~IsMobile(w)
    THEN st
    ELSE LET scrollDelta == y - st.lastScrollY
         IN IF Abs(scrollDelta) < threshold THEN st
            ELSE [(IF scrollDelta > 0 /\ y > TopOffset THEN HideTopRow(st)
                   ELSE IF scrollDelta < 0 THEN ShowTopRow(st)
                   ELSE st) EXCEPT !.lastScrollY = y]

\* onScroll recording the position before the threshold test.
OnScrollRecordsFirst(st, y, w) ==
    IF ~IsMobile(w)
    THEN IF st.topRowHidden THEN ShowTopRow(st) ELSE st
    ELSE LET scrollDelta == y - st.lastScrollY
             rec == [st EXCEPT !.lastScrollY = y]
         IN IF Abs(scrollDelta) < threshold THEN rec
            ELSE IF scrollDelta > 0 /\ y > TopOffset THEN HideTopRow(rec)
            ELSE IF scrollDelta < 0 THEN ShowTopRow(rec)
            ELSE rec

\* onScroll() with window.scrollY = y and window.innerWidth = w, on the
\* closure state st.
OnScroll(st, y, w) ==
    IF ~IsMobile(w)
    THEN IF st.topRowHidden THEN ShowTopRow(st) ELSE st
    ELSE LET scrollDelta == y - st.lastScrollY
         IN IF Abs(scrollDelta) < threshold THEN st
            ELSE [(IF scrollDelta > 0 /\ y > TopOffset THEN HideTopRow(st)
                   ELSE IF scrollDelta < 0 THEN ShowTopRow(st)
                   ELSE st) EXCEPT !.lastScrollY = y]

\* The page scrolls to y: the window's scroll listener runs onScroll.
Scroll(y) ==
    /\ scrollY' = y
    /\ LET st == OnScroll(NavState, y, innerWidth)
       IN /\ topRowHidden' = st.topRowHidden
          /\ rowStyle' = st.rowStyle
          /\ lastScrollY' = st.lastScrollY
    /\ lastN' = [op |-> "scroll", topRowHidden |-> topRowHidden,
                 lastScrollY |-> lastScrollY]
    /\ UNCHANGED <<threshold, mobileBreakpoint, innerWidth>>

\* The window is resized to the width w; the helper listens to no resize.
Resize(w) ==
    /\ w # innerWidth
    /\ innerWidth' = w
    /\ lastN' = [op |-> "resize", topRowHidden |-> topRowHidden,
                 lastScrollY |-> lastScrollY]
    /\ UNCHANGED <<threshold, mobileBreakpoint, lastScrollY, topRowHidden,
                   scrollY, rowStyle>>

\* initNavbarScroll(navbar, options) has returned.
NavbarInit ==
    /\ threshold \in {OrDefault(t, DefaultThreshold) : t \in ThresholdOptions}
    /\ mobileBreakpoint \in
           {OrDefault(b, DefaultMobileBreakpoint) : b \in BreakpointOptions}
    /\ scrollY \in ScrollPositions
    /\ lastScrollY = scrollY
    /\ topRowHidden = FALSE
    /\ innerWidth \in Widths
    /\ rowStyle = "transition"
    /\ lastN = [op |-> "init", topRowHidden |-> FALSE, lastScrollY |-> scrollY]
    /\ GradientIdle /\ DatalistIdle /\ DarkIdle /\ TrackerIdle

NavbarNext ==
    \/ \E y \in ScrollPositions : Scroll(y)
           /\ UNCHANGED <<gradientVars, datalistVars, darkVars, trackerVars>>
    \/ \E w \in Widths : Resize(w)
           /\ UNCHANGED <<gradientVars, datalistVars, darkVars, trackerVars>>

(***************************************************************************)
(* The unsaved-changes tracker                                             *)
(* Its code is past the point where the file breaks off; it is modelled    *)
(* from its contract: a dirty flag, a beforeunload listener registered at  *)
(* creation that asks for confirmation while the flag is set, and          *)
(* destroy() removing the listener.                                        *)
(***************************************************************************)
\* lastT.mark is the last of setDirty()/setClean() called, lastT.destroyed
\* whether destroy() was ever called.
TStep(op, confirmed, mark, destroyed) ==
    [op |-> op, confirmed |-> confirmed, mark |-> mark, destroyed |-> destroyed]

\* setDirty()
SetDirty ==
    /\ dirty' = TRUE
    /\ lastT' = TStep("setDirty", FALSE, "dirty", lastT.destroyed)
    /\ UNCHANGED <<listening, navigations, confirmations>>

\* setClean()
SetClean ==
    /\ dirty' = FALSE
    /\ lastT' = TStep("setClean", FALSE, "clean", lastT.destroyed)
    /\ UNCHANGED <<listening, navigations, confirmations>>

\* destroy() resetting the flag and leaving the listener registered.
DestroyKeepsListener ==
    /\ dirty' = FALSE
    /\ lastT' = TStep("destroy", FALSE, lastT.mark, TRUE)
    /\ UNCHANGED <<listening, navigations, confirmations>>

\* destroy(): remove the beforeunload listener.
Destroy ==
    /\ listening' = FALSE
    /\ lastT' = TStep("destroy", FALSE, lastT.mark, TRUE)
    /\ UNCHANGED <<dirty, navigations, confirmations>>

\* The beforeunload handler: ask for confirmation while dirty.
BeforeUnload == dirty

\* The user attempts to leave the page (and stays, if asked): beforeunload
\* goes to the tracker's listener while it is registered.
Navigate ==
    /\ navigations < MaxNavigations
    /\ navigations' = navigations + 1
    /\ LET asked == listening /\ BeforeUnload
       IN /\ confirmations' = confirmations + (IF asked THEN 1 ELSE 0)
          /\ lastT' = TStep("navigate", asked, lastT.mark, lastT.destroyed)
    /\ UNCHANGED <<dirty, listening>>

\* A tracker right after its creation: clean, listening.
TrackerInit ==
    /\ dirty = FALSE
    /\ listening = TRUE
    /\ navigations = 0
    /\ confirmations = 0
    /\ lastT = [op |-> "create", confirmed |-> FALSE, mark |-> "none",
                destroyed |-> FALSE]
    /\ GradientIdle /\ DatalistIdle /\ DarkIdle /\ NavIdle

TrackerNext ==
    \/ SetDirty
           /\ UNCHANGED <<gradientVars, datalistVars, darkVars, navVars>>
    \/ SetClean
           /\ UNCHANGED <<gradientVars, datalistVars, darkVars, navVars>>
    \/ Destroy
           /\ UNCHANGED <<gradientVars, datalistVars, darkVars, navVars>>
    \/ Navigate
           /\ UNCHANGED <<gradientVars, datalistVars, darkVars, navVars>>

(***************************************************************************)
(* The specifications: one helper runs, the other is not constructed.      *)
(***************************************************************************)
GradientSpec == GradientInit /\ [][GradientNext]_vars

DatalistSpec == DatalistInit /\ [][DatalistNext]_vars

DarkModeSpec == DarkModeInit /\ [][DarkModeNext]_vars

TrackerSpec == TrackerInit /\ [][TrackerNext]_vars

NavbarSpec == NavbarInit /\ [][NavbarNext]_vars

(***************************************************************************)
(* Properties of easeOutGradient, checked under GradientSpec.              *)
(***************************************************************************)
Registrations(c) == Cardinality({i \in 1..Len(listeners) : listeners[i] = c})

HasBothClasses == {"gradient", "gradient-out"} \subseteq classList

\* C1: a call made while the element has 'gradient' resolves its promise
\* exactly once, on the first transitionend event with propertyName
\* '--gradient-opacity' delivered after the call; no later event resolves
\* it again or runs the call's handler.
C1_ResolvesOnceOnFirstMatch ==
    \A c \in 1..Len(calls) :
        calls[c].had =>
            /\ calls[c].resolveCalls <= 1
            /\ (calls[c].resolveCalls = 1) <=> (calls[c].matchSince >= 1)
            /\ calls[c].resolveCalls = 1 =>
                   /\ calls[c].resolvedBy = "event"
                   /\ calls[c].resolvedAtMatch = 1
                   /\ Registrations(c) = 0
            /\ calls[c].lateRuns = 0

\* A call was resolved by a matching event that followed a non-matching
\* one, and a second matching event was delivered afterwards.
C1_Witness ==
    \E c \in 1..Len(calls) :
        /\ calls[c].had
        /\ calls[c].resolveCalls = 1
        /\ calls[c].handlerRuns = 2
        /\ calls[c].matchSince >= 2

\* C2: a call made while the element lacks 'gradient' resolves its promise
\* during the call, adds no class (so no 'gradient-out') and registers no
\* transitionend listener.
C2_ResolvesImmediatelyWithoutGradient ==
    /\ \A c \in 1..Len(calls) :
           ~calls[c].had =>
               /\ calls[c].resolveCalls = 1
               /\ calls[c].resolvedBy = "call"
               /\ Registrations(c) = 0
               /\ calls[c].handlerRuns = 0
    /\ (lastG.op = "call" /\ ~calls[lastG.id].had) =>
           /\ classList = lastG.classList
           /\ listeners = lastG.listeners
           /\ styleTransition = lastG.styleTransition

\* The last step was a call on an element without 'gradient', after an
\* earlier call had faded the gradient out.
C2_Witness ==
    /\ lastG.op = "call"
    /\ ~calls[lastG.id].had
    /\ "gradient-out" \notin classList
    /\ \E c \in 1..Len(calls) : calls[c].had /\ calls[c].resolveCalls = 1

\* C3: there is no timeout or cancellation: as long as no transitionend
\* event with propertyName '--gradient-opacity' has been delivered since a
\* call made with 'gradient' present, its promise is unresolved, exactly
\* one listener of the call is registered and the element has both
\* 'gradient' and 'gradient-out'.
C3_PendingWithoutMatchingEvent ==
    \A c \in 1..Len(calls) :
        (calls[c].had /\ calls[c].matchSince = 0) =>
            /\ calls[c].resolveCalls = 0
            /\ Registrations(c) = 1
            /\ HasBothClasses

\* A call is still pending after two events that did not match.
C3_Witness ==
    \E c \in 1..Len(calls) :
        /\ calls[c].had
        /\ calls[c].matchSince = 0
        /\ calls[c].handlerRuns >= 2
        /\ calls[c].resolveCalls = 0

\* C19: a transitionend event whose propertyName is not
\* '--gradient-opacity' is ignored: the classes (both 'gradient' and
\* 'gradient-out' while a call is pending), the inline transition style,
\* the registered listeners and the unresolved promises are as before.
C19_OtherPropertyIgnored ==
    (lastG.op = "event" /\ lastG.prop # GradientProperty) =>
        /\ classList = lastG.classList
        /\ styleTransition = lastG.styleTransition
        /\ listeners = lastG.listeners
        /\ PendingCalls(calls) = lastG.pending
        /\ lastG.pending # {} => HasBothClasses

\* An event of another property reached the handlers of two pending calls
\* on an element carrying an inline transition style.
C19_Witness ==
    /\ lastG.op = "event"
    /\ lastG.prop # GradientProperty
    /\ Len(listeners) >= 2
    /\ styleTransition = "opacity 1s"
    /\ \A c \in lastG.pending : calls[c].handlerRuns >= 1

\* C20: the transitionend listeners registered by easeOutGradient are as
\* many as its unresolved promises; once a matching event has been handled
\* by the calls pending then, all of them are resolved, no listener is
\* left and the element has neither 'gradient' nor 'gradient-out'.
C20_ListenersMatchPendingPromises ==
    /\ Len(listeners) = Cardinality(PendingCalls(calls))
    /\ \A c \in 1..Len(calls) : Registrations(c) = (IF calls[c].resolveCalls = 0 THEN 1 ELSE 0)
    /\ (lastG.op = "event" /\ lastG.prop = GradientProperty /\ lastG.pending # {}) =>
           /\ PendingCalls(calls) = {}
           /\ listeners = <<>>
           /\ classList \cap {"gradient", "gradient-out"} = {}

\* One matching event resolved three calls that were pending together.
C20_Witness ==
    /\ lastG.op = "event"
    /\ lastG.prop = GradientProperty
    /\ Cardinality(lastG.pending) >= 3
    /\ PendingCalls(calls) = {}
    /\ listeners = <<>>

(***************************************************************************)
(* Properties of the datalist, checked under DatalistSpec.                 *)
(***************************************************************************)
CasePairs == {<<"A", "a">>, <<"B", "b">>, <<"N", "n">>, <<"P", "p">>}

SameLetter(x, y) == x = y \/ <<x, y>> \in CasePairs \/ <<y, x>> \in CasePairs

\* The label contains the query as a substring, letter case aside.
ContainsIgnoringCase(label, q) ==
    \E off \in 0..(Len(label) - Len(q)) :
        \A j \in 1..Len(q) : SameLetter(label[off + j], q[j])

MatchingIndices == {i \in 1..Len(options) : ContainsIgnoringCase(options[i].label, query)}

\* The k-th smallest of a set of indices.
Nth(I, k) == CHOOSE i \in I : Cardinality({j \in I : j < i}) = k - 1

ValueExists(k) == \E o \in {options[i] : i \in 1..Len(options)} : o.value = k

\* C4: highlightedIndex is -1 or a valid index into filteredOptions.
C4_HighlightedIndexValid ==
    \/ highlightedIndex = -1
    \/ (0 <= highlightedIndex /\ highlightedIndex < Len(filteredOptions))

\* The pointer entered the last of several options left by a query.
C4_Witness ==
    /\ lastD.op = "mouseenter"
    /\ query # EmptyText
    /\ Len(filteredOptions) >= 2
    /\ highlightedIndex = Len(filteredOptions) - 1

\* C5: after an input event filteredOptions is the subsequence of the full
\* option list, in its order, of exactly the options whose label contains
\* the query as a case-insensitive substring, and the full list is as it
\* was before the event.
C5_FilterIsMatchingSubsequence ==
    lastD.op = "input" =>
        /\ Len(filteredOptions) = Cardinality(MatchingIndices)
        /\ \A k \in 1..Len(filteredOptions) :
               filteredOptions[k] = options[Nth(MatchingIndices, k)]
        /\ options = lastD.options

\* The query "An" typed over apple/banana leaves banana.
C5_Witness ==
    /\ lastD.op = "input"
    /\ options = <<Apple, Banana>>
    /\ query = <<"A", "n">>
    /\ filteredOptions = <<Banana>>

\* C6: right after setValue(k), getValue() is k when k is the value of an
\* option of the list; otherwise getValue() is null and selectedValue and
\* selectedLabel are cleared, whatever was selected before.
C6_SetValueThenGetValue ==
    lastD.op = "setValue" =>
        IF ValueExists(lastD.key)
        THEN GetValue = lastD.key
        ELSE /\ GetValue = Null
             /\ GetValue # lastD.key
             /\ selectedValue = Null
             /\ selectedLabel = EmptyText

\* setValue of a key of no option cleared an existing selection.
C6_Witness ==
    /\ lastD.op = "setValue"
    /\ ~ValueExists(lastD.key)
    /\ lastD.selectedValue # Null
    /\ GetValue = Null

\* C7: selectedValue is null or the value of an entry of the full option
\* list.
C7_SelectedValueInOptions ==
    selectedValue = Null \/ ValueExists(selectedValue)

\* An option is selected.
C7_Witness ==
    /\ selectedValue # Null
    /\ lastD.op \in {"click", "enter", "setValue"}
    /\ lastD.selectedValue # selectedValue

\* C8: right after clear(), getValue() is null and the query text is empty.
C8_ClearResets ==
    lastD.op = "clear" => (GetValue = Null /\ query = EmptyText)

\* clear() was called with an option selected and a query typed.
C8_Witness ==
    /\ lastD.op = "clear"
    /\ lastD.selectedValue # Null
    /\ lastD.query # EmptyText
    /\ GetValue = Null

Selected(o) ==
    /\ selectedValue = o.value
    /\ selectedLabel = o.label
    /\ onChange # Null => onChangeCalls = <<[value |-> o.value, label |-> o.label]>>
    /\ onChange = Null => onChangeCalls = <<>>
    /\ ~isOpen

\* C9: selecting an option o, by a click on it or by enter while
\* highlightedIndex points at it in filteredOptions, sets selectedValue and
\* selectedLabel to o's, calls onChange (when one is configured) once with
\* {value, label} of o and leaves the panel closed; with apple/banana and the query "an", enter on
\* the first filtered option selects banana.
C9_SelectingAnOption ==
    /\ lastD.op = "click" => Selected(lastD.opt)
    /\ (lastD.op = "enter" /\ lastD.highlightedIndex >= 0) =>
           Selected(filteredOptions[lastD.highlightedIndex + 1])
    /\ (/\ lastD.op = "enter"
        /\ options = <<Apple, Banana>>
        /\ query = <<"a", "n">>
        /\ onChange # Null
        /\ lastD.highlightedIndex = 0) =>
           /\ selectedValue = "banana"
           /\ onChangeCalls = <<[value |-> "banana", label |-> Banana.label]>>

\* Enter on the highlighted banana, the query being "an".
C9_Witness ==
    /\ lastD.op = "enter"
    /\ options = <<Apple, Banana>>
    /\ query = <<"a", "n">>
    /\ lastD.highlightedIndex = 0
    /\ lastD.isOpen
    /\ lastD.selectedValue = "apple"
    /\ selectedValue = "banana"
    /\ onChangeCalls = <<[value |-> "banana", label |-> Banana.label]>>

\* C10: escape leaves the panel closed, selectedValue and selectedLabel as
\* they were before the key press, and onChange uncalled.
C10_EscapeKeepsSelection ==
    lastD.op = "escape" =>
        /\ ~isOpen
        /\ selectedValue = lastD.selectedValue
        /\ selectedLabel = lastD.selectedLabel
        /\ onChangeCalls = <<>>

\* Escape was pressed with the panel open and an option selected.
C10_Witness ==
    /\ lastD.op = "escape"
    /\ lastD.isOpen
    /\ lastD.selectedValue # Null
    /\ selectedValue = lastD.selectedValue

(***************************************************************************)
(* Properties of the dark-mode control, checked under DarkModeSpec.        *)
(***************************************************************************)
\* C11: right after initDarkMode returns, the root has 'dark' exactly when
\* the system preference is dark, and a bound checkbox is checked exactly
\* then too.
C11_InitFollowsSystemPreference ==
    lastK.op = "init" =>
        /\ rootDark = systemDark
        /\ hasToggle => checked = systemDark

\* initDarkMode ran on a light page with an unchecked checkbox while the
\* system preferred dark.
C11_Witness ==
    /\ lastK.op = "init"
    /\ systemDark
    /\ hasToggle
    /\ ~lastK.rootDark
    /\ ~lastK.checked
    /\ rootDark

\* C12: toggle() negates the dark state, so a second toggle() in a row
\* restores the state before the first, and a bound checkbox is checked
\* exactly when the new state is dark.
C12_ToggleNegates ==
    lastK.op = "toggle" =>
        /\ IsDark = ~lastK.rootDark
        /\ hasToggle => checked = IsDark
        /\ lastK.prevOp = "toggle" => IsDark = lastK.prevDark

\* Two toggle() calls in a row, with a checkbox, ending in the state the
\* system preference does not have.
C12_Witness ==
    /\ lastK.op = "toggle"
    /\ lastK.prevOp = "toggle"
    /\ hasToggle
    /\ IsDark # systemDark
    /\ IsDark = lastK.prevDark

\* C14: with a checkbox bound, after every handler (set, toggle, checkbox
\* change, system preference change) checkbox.checked equals the presence
\* of 'dark' on the root.
C14_CheckboxMatchesDarkClass ==
    (darkReady /\ hasToggle) => checked = rootDark

\* A system preference change turned dark mode on after the user had
\* unchecked the checkbox.
C14_Witness ==
    /\ darkReady
    /\ hasToggle
    /\ lastK.op = "system"
    /\ lastK.prevOp = "checkbox"
    /\ ~lastK.checked
    /\ checked
    /\ rootDark

\* C15: right after a system preference change event with matches = m is
\* handled, isDark() is m, whatever set(), toggle() or the checkbox did
\* before.
C15_SystemChangeOverrides ==
    lastK.op = "system" => IsDark = lastK.arg

\* The system preference changed to the opposite of what the user had just
\* toggled to.
C15_Witness ==
    /\ lastK.op = "system"
    /\ lastK.prevOp = "toggle"
    /\ lastK.rootDark # lastK.arg
    /\ IsDark = lastK.arg

(***************************************************************************)
(* Properties of the unsaved-changes tracker, checked under TrackerSpec.   *)
(***************************************************************************)
\* C13: a navigation attempt takes the browser confirmation path exactly
\* when the last of setDirty()/setClean() was setDirty() and destroy() has
\* not been called; after destroy() no attempt does, whatever the flag is
\* and whatever setDirty()/setClean() calls follow.
C13_ConfirmationIffDirtyAndAlive ==
    /\ lastT.op = "navigate" =>
           (lastT.confirmed <=> (lastT.mark = "dirty" /\ ~lastT.destroyed))
    /\ (lastT.op = "navigate" /\ lastT.destroyed) => ~lastT.confirmed

\* A navigation attempt went unconfirmed after destroy() and a later
\* setDirty(), an earlier one having been confirmed.
C13_Witness ==
    /\ lastT.op = "navigate"
    /\ lastT.destroyed
    /\ lastT.mark = "dirty"
    /\ dirty
    /\ ~lastT.confirmed
    /\ confirmations >= 1

(***************************************************************************)
(* Properties of the navbar scroll helper, checked under NavbarSpec.       *)
(***************************************************************************)
\* C16: the top row goes from shown to hidden only in a scroll event
\* handled at a width of at most the mobile breakpoint, with scrollY minus
\* lastScrollY positive and at least the threshold, and scrollY above 50.
C16_HiddenOnlyByMobileScrollDown ==
    (topRowHidden /\ ~lastN.topRowHidden) =>
        /\ lastN.op = "scroll"
        /\ innerWidth <= mobileBreakpoint
        /\ scrollY - lastN.lastScrollY >= threshold
        /\ scrollY - lastN.lastScrollY > 0
        /\ scrollY > TopOffset

\* A scroll down by exactly the threshold hid the top row at a width equal
\* to the breakpoint.
C16_Witness ==
    /\ topRowHidden
    /\ ~lastN.topRowHidden
    /\ lastN.op = "scroll"
    /\ innerWidth = mobileBreakpoint
    /\ scrollY - lastN.lastScrollY = threshold

\* C17: after a scroll event handled at a width above the mobile
\* breakpoint the top row is shown, even if it was hidden before, and
\* lastScrollY is what it was.
C17_DesktopScrollShowsTopRow ==
    (lastN.op = "scroll" /\ innerWidth > mobileBreakpoint) =>
        /\ ~topRowHidden
        /\ lastScrollY = lastN.lastScrollY

\* A scroll on a wide screen showed a top row that was hidden, the page
\* being elsewhere than at lastScrollY.
C17_Witness ==
    /\ lastN.op = "scroll"
    /\ innerWidth > mobileBreakpoint
    /\ lastN.topRowHidden
    /\ ~topRowHidden
    /\ scrollY # lastScrollY

\* C18: after a scroll event handled at a mobile width with scrollY = 0
\* (all positions being >= 0) the top row is shown.
C18_ShownAtTop ==
    (lastN.op = "scroll" /\ innerWidth <= mobileBreakpoint /\ scrollY = 0) =>
        ~topRowHidden

\* A scroll back to the very top on a mobile width showed a top row that
\* was hidden.
C18_Witness ==
    /\ lastN.op = "scroll"
    /\ innerWidth <= mobileBreakpoint
    /\ scrollY = 0
    /\ lastN.topRowHidden
    /\ ~topRowHidden

=============================================================================
